---- MODULE Spec2Model ----
(***************************************************************************)
(* Card-Reco-Tool-V2: the orchestration around the reconciliation engine   *)
(* (src/app.py), the narrative generator's input filter                    *)
(* (src/root_cause_analysis.py) and the matcher / aggregator it calls.     *)
(*                                                                         *)
(* The entry points share no state with one another: the batch-job path    *)
(* works on batch_jobs, the workspace path on the session's transactions   *)
(* and processing_state, rates_file on one report.  A behaviour therefore  *)
(* exercises one entry point, recorded in `route`.                         *)
(*                                                                         *)
(* Amounts are integers (minor units).  None is the empty tuple <<>> and a *)
(* present optional value x is <<x>>.  Python indices are 0-based; the     *)
(* sequences here are 1-based and say so where it matters.                 *)
(***************************************************************************)
EXTENDS Integers, Sequences, FiniteSets, TLC

VARIABLES
    route,              \* entry point exercised by this behaviour
    EMAIL_ENABLED,      \* app.py:66, read from the environment at start-up
    unlocked_access,    \* a shared ledger entry was accessed outside processing_lock (app.py:57)
    base_path_exists,   \* os.path.exists(base_path) of the batch base path
    fs,                 \* the folders under the batch base path
    batch_jobs,         \* app.py:53, job_id -> job record
    thread,             \* run_batch_processing_thread, its locals per job
    response,           \* last answer of batch_progress
    batch_results,      \* session['batch_results'] as save_batch_results left it
    session,            \* the Flask session of the workspace path
    processing_state,   \* app.py:56, one entry per execute_batch_processing call
    request,            \* the request handler at work on the workspace path
    pool,               \* the ThreadPoolExecutor's futures, in submission order
    report_files,       \* temp_dir: index -> content of report_<index>.json
    http,               \* last answer of a workspace-path handler
    requests,           \* requests served so far
    last_rate_report,   \* app.py:50
    fee_lines,          \* match(): the calculated lines of one sheet
    invoice_lines,      \* match(): the invoice lines
    match_rows,         \* match(): the MatchResults, None before the call
    unmatched_invoice_lines, \* match(): the invoice lines no FeeLine asked for
    match_summary,      \* aggregate(): the Summary, None before the call
    rerun_report,       \* the Report of a second match() and aggregate(), None before it
    sheet_rows,         \* the extractor's input: the rows of one sheet, in sheet order
    extraction,         \* the extractor's output (lines, warnings), None before the call
    rca_report,         \* the Report handed to the RootCauseAnalyzer
    api_key,            \* RootCauseAnalyzer.api_key is set (root_cause_analysis.py:22)
    discrepancies,      \* result of _extract_discrepancies, None before the call
    rca,                \* analyze_reconciliation_discrepancies: its position and result
    openai_calls,       \* chat.completions.create calls made
    pdf_jobs,           \* batch_jobs of the jobs that overlap: status, results, error, pdf_path
    pdf_thread,         \* run_batch_processing_thread of each of these jobs
    output_file,        \* batch_reconciliation_report.pdf: the results it was built from
    analysis,           \* per folder: run_rate_analysis calls of the batch job, and how many raised
    below_reports,      \* per transaction: reports returned with totals under 95 %
    smtp_attempts,      \* per transaction: SMTP sends attempted
    smtp_delivered      \* per transaction: SMTP sends that succeeded

envVars == <<route, EMAIL_ENABLED, base_path_exists>>
batchVars == <<fs, batch_jobs, thread, response, batch_results>>
poolVars == <<session, processing_state, request, pool, report_files>>
reqVars == <<http, requests>>
ratesVars == <<last_rate_report>>
matchVars == <<fee_lines, invoice_lines, match_rows, unmatched_invoice_lines,
              match_summary, rerun_report>>
extractVars == <<sheet_rows, extraction>>
rcaVars == <<rca_report, api_key, discrepancies, rca, openai_calls>>
pdfVars == <<pdf_jobs, pdf_thread, output_file>>
coreVars == <<matchVars, extractVars, rcaVars, pdfVars>>
mailVars == <<below_reports, smtp_attempts, smtp_delivered>>

vars == <<envVars, unlocked_access, batchVars, poolVars, reqVars, ratesVars, coreVars,
          analysis, mailVars>>

-----------------------------------------------------------------------------
(* Bounds *)

MaxTransactions == 3
MaxRequests == 3
MaxFeeLines == 2
MaxInvoiceLines == 2
MaxSheetRows == 3
MaxSheets == 2
MaxResultRows == 2
MaxJobs == 2

Names == 1..MaxTransactions
JobIds == {"job1"}

None == <<>>
Some(x) == <<x>>

-----------------------------------------------------------------------------
(* Summary.amount_reconciled_percentage and the alert decision *)

Abs(x) == IF x < 0 THEN 0 - x ELSE x

\* the epsilon of max(total_visa_amount, epsilon): one minor unit
EPSILON == 1

ALERT_THRESHOLD == 95

\* variant: the percentage is neither floored nor capped
AmountReconciledPercentageUnclamped(tf, tv) ==
    LET den == IF tv > EPSILON THEN tv ELSE EPSILON
    IN  [num |-> 100 * (den - Abs(tf - tv)), den |-> den]

\* 100 * (1 - |tf - tv| / max(tv, epsilon)), floored at 0 and capped at 100,
\* kept exact as the fraction num / den with den > 0
AmountReconciledPercentage(tf, tv) ==
    LET den == IF tv > EPSILON THEN tv ELSE EPSILON
        raw == 100 * (den - Abs(tf - tv))
    IN  [num |-> IF raw < 0 THEN 0 ELSE IF raw > 100 * den THEN 100 * den ELSE raw,
         den |-> den]

\* the percentage rounded half-up to 2 decimals, in hundredths of a percent
RoundDisplay(p) ==
    LET whole == p.num \div p.den
        rem   == p.num % p.den
        hund  == (100 * rem) \div p.den
        rem2  == (100 * rem) % p.den
    IN  100 * whole + hund + (IF 2 * rem2 >= p.den THEN 1 ELSE 0)

Summary(tf, tv) ==
    [total_final_amount |-> tf,
     total_visa_amount |-> tv,
     amount_reconciled_percentage |-> AmountReconciledPercentage(tf, tv),
     amount_reconciled_display |-> RoundDisplay(AmountReconciledPercentage(tf, tv))]

\* variant: the comparison made on the percentage as displayed (2 decimals)
BelowThresholdDisplayed(summary) ==
    summary.amount_reconciled_display < 100 * ALERT_THRESHOLD

\* amount_reconciled < 95 (app.py:279, :885)
BelowThreshold(summary) ==
    summary.amount_reconciled_percentage.num
        < ALERT_THRESHOLD * summary.amount_reconciled_percentage.den

\* variant: the gate lets exactly 95 through
AboveThreshold(summary) ==
    summary.amount_reconciled_percentage.num
        > ALERT_THRESHOLD * summary.amount_reconciled_percentage.den

\* amount_reconciled >= 95 (app.py:88)
AtOrAboveThreshold(summary) ==
    summary.amount_reconciled_percentage.num
        >= ALERT_THRESHOLD * summary.amount_reconciled_percentage.den

-----------------------------------------------------------------------------
(* run_rate_analysis: what a call can do *)

\* (total_final_amount, total_visa_amount) of the reports a call can return:
\* 94.9949 %, 94.995 %, 95 %, 100 % (both zero), 0 % (invoice total zero)
Totals == {<<949949, 1000000>>, <<18999, 20000>>, <<19000, 20000>>,
           <<0, 0>>, <<50, 0>>}

\* the totals drawn on the workspace path: 94.995 % and 95 %
WorkspaceTotals == {<<18999, 20000>>, <<19000, 20000>>}

\* a call raises, returns no report (None, or one without a summary), or
\* returns a report
Outcomes(totals) ==
    {[kind |-> "raise", tf |-> 0, tv |-> 0], [kind |-> "none", tf |-> 0, tv |-> 0]}
    \cup {[kind |-> "report", tf |-> t[1], tv |-> t[2]] : t \in totals}

RunOutcomes == IF route = "pool" THEN Outcomes(WorkspaceTotals) ELSE Outcomes(Totals)

\* |tf - tv| / max(tv, epsilon) > 5 %: the report's totals are under 95 %
RawBelow(o) ==
    o.kind = "report"
    /\ 100 * Abs(o.tf - o.tv) > (100 - ALERT_THRESHOLD) * (IF o.tv > EPSILON THEN o.tv ELSE EPSILON)


Report(o) == [summary |-> Summary(o.tf, o.tv)]

\* send_reconciliation_alert (app.py:79-149): the outcomes a call can have.
\* "skipped" returns False before any SMTP traffic (alerts disabled, or the
\* percentage is not below the threshold); otherwise the SMTP send is
\* attempted and either succeeds ("sent", returns True) or raises inside the
\* function ("smtp_error", returns False)
SendReconciliationAlert(report) ==
    IF ~EMAIL_ENABLED THEN {"skipped"}
    ELSE IF AtOrAboveThreshold(report.summary) THEN {"skipped"}
    ELSE {"sent", "smtp_error"}

Attempted(sent) == IF sent = "skipped" THEN 0 ELSE 1
Delivered(sent) == IF sent = "sent" THEN 1 ELSE 0

Bump(f, n, by) == [f EXCEPT ![n] = @ + by]

Mail(n, sent) ==
    /\ smtp_attempts' = Bump(smtp_attempts, n, Attempted(sent))
    /\ smtp_delivered' = Bump(smtp_delivered, n, Delivered(sent))

NoMail == UNCHANGED <<smtp_attempts, smtp_delivered>>

\* history: the batch job called run_rate_analysis on folder n, with outcome o
Called(n, o) ==
    analysis' = [analysis EXCEPT ![n].calls = @ + 1,
                                 ![n].raised = @ + (IF o.kind = "raise" THEN 1 ELSE 0)]

\* history: run_rate_analysis returned outcome o for transaction n
Seen(n, o) == below_reports' = Bump(below_reports, n, IF RawBelow(o) THEN 1 ELSE 0)

-----------------------------------------------------------------------------
(* scan_transaction_folders / map_files_in_folder *)

FolderKinds == {"absent", "no_summary", "summary", "unreadable"}

RECURSIVE SortedNames(_)
SortedNames(S) ==
    IF S = {} THEN <<>>
    ELSE LET m == CHOOSE x \in S : \A y \in S : x <= y
         IN  <<m>> \o SortedNames(S \ {m})

DescendingNames(S) ==
    LET asc == SortedNames(S) IN [k \in 1..Len(asc) |-> asc[Len(asc) + 1 - k]]

\* variant: the folders come in descending name order
ScanTransactionFoldersDescending ==
    IF ~base_path_exists THEN <<>>
    ELSE DescendingNames({n \in Names : fs[n] # "absent"})

\* app.py:151-174
ScanTransactionFolders ==
    IF ~base_path_exists THEN <<>>
    ELSE SortedNames({n \in Names : fs[n] # "absent"})

-----------------------------------------------------------------------------
(* The batch-job path: start_batch_analysis, run_batch_processing_thread,  *)
(* process_transaction_batch, batch_progress                               *)

NewJob ==
    [status |-> "processing", progress |-> "initializing",
     total_transactions |-> 0, processed |-> 0, current_transaction |-> 0,
     results |-> None, error |-> "None", pdf_path |-> "None"]

NoThread == [pc |-> "idle", folders |-> <<>>, idx |-> 0, results |-> <<>>]

\* variant: the failure record drops its reason
FailedResultNoReason(name, err) ==
    [transaction_name |-> name, status |-> "failed", error |-> "None",
     report |-> None, email_sent |-> FALSE]

FailedResult(name, err) ==
    [transaction_name |-> name, status |-> "failed", error |-> err,
     report |-> None, email_sent |-> FALSE]

SuccessResult(name, report, email_sent) ==
    [transaction_name |-> name, status |-> "success", error |-> "None",
     report |-> report, email_sent |-> email_sent]

NoBatchResults == [saved |-> FALSE, results |-> None]

\* app.py:1196-1237; a path that does not exist is answered with 400
StartBatchAnalysis(j) ==
    /\ route = "batch"
    /\ thread[j].pc = "idle"
    /\ base_path_exists
    /\ batch_jobs' = [batch_jobs EXCEPT ![j] = Some(NewJob)]
    /\ thread' = [thread EXCEPT ![j].pc = "scan"]
    /\ UNCHANGED <<envVars, unlocked_access, fs, response, batch_results, poolVars,
                   reqVars, ratesVars, coreVars, analysis, mailVars>>

Job(j) == batch_jobs[j][1]

\* the job's thread is running
ThreadLive(j) == thread[j].pc \notin {"idle", "end"}

\* batch_jobs[job_id][field] = value, as the thread writes it: no lock is taken
SetJob(j, field, value) ==
    /\ batch_jobs' = [batch_jobs EXCEPT ![j] = Some([Job(j) EXCEPT ![field] = value])]
    /\ unlocked_access' = TRUE

BatchQuiet ==
    UNCHANGED <<envVars, fs, response, batch_results, poolVars, reqVars, ratesVars,
                coreVars, analysis, mailVars>>

\* the base path is removed after start_batch_analysis has validated it and
\* before the thread scans it
BasePathRemoved(j) ==
    /\ route = "batch"
    /\ thread[j].pc = "scan"
    /\ base_path_exists
    /\ base_path_exists' = FALSE
    /\ fs' = [n \in Names |-> "absent"]
    /\ UNCHANGED <<route, EMAIL_ENABLED, unlocked_access, batch_jobs, thread, response,
                   batch_results, poolVars, reqVars, ratesVars, coreVars, analysis,
                   mailVars>>

\* app.py:236-237
BatchScan(j) ==
    /\ thread[j].pc = "scan"
    /\ thread' = [thread EXCEPT ![j] = [pc |-> "fetch_progress",
                                       folders |-> ScanTransactionFolders,
                                       idx |-> 0, results |-> <<>>]]
    /\ UNCHANGED <<batch_jobs, unlocked_access>>
    /\ BatchQuiet

\* app.py:241
BatchFetchProgress(j) ==
    /\ thread[j].pc = "fetch_progress"
    /\ SetJob(j, "progress", "fetching")
    /\ thread' = [thread EXCEPT ![j].pc = "fetch_total"]
    /\ BatchQuiet

\* app.py:242
BatchFetchTotal(j) ==
    /\ thread[j].pc = "fetch_total"
    /\ SetJob(j, "total_transactions", Len(thread[j].folders))
    /\ thread' = [thread EXCEPT ![j].pc = "fetch_processed"]
    /\ BatchQuiet

\* app.py:243
BatchFetchProcessed(j) ==
    /\ thread[j].pc = "fetch_processed"
    /\ SetJob(j, "processed", 0)
    /\ thread' = [thread EXCEPT ![j].pc = "loop"]
    /\ BatchQuiet

\* app.py:245, :253 (next folder) or :302 (loop over)
BatchLoop(j) ==
    /\ thread[j].pc = "loop"
    /\ IF thread[j].idx < Len(thread[j].folders)
       THEN /\ SetJob(j, "progress", "reconciling")
            /\ thread' = [thread EXCEPT ![j].pc = "rec_current"]
       ELSE /\ SetJob(j, "progress", "finalizing")
            /\ thread' = [thread EXCEPT ![j].pc = "pdf"]
    /\ BatchQuiet

\* app.py:254
BatchRecCurrent(j) ==
    /\ thread[j].pc = "rec_current"
    /\ SetJob(j, "current_transaction", thread[j].folders[thread[j].idx + 1])
    /\ thread' = [thread EXCEPT ![j].pc = "rec_processed"]
    /\ BatchQuiet

\* app.py:255
BatchRecProcessed(j) ==
    /\ thread[j].pc = "rec_processed"
    /\ SetJob(j, "processed", thread[j].idx)
    /\ thread' = [thread EXCEPT ![j].pc = "body"]
    /\ BatchQuiet

BatchAppend(j, result) ==
    thread' = [thread EXCEPT ![j].results = Append(@, result),
                             ![j].idx = @ + 1,
                             ![j].pc = "loop"]

\* app.py:291-298: the except clause of the loop body
BatchOnRaise(j, name) == BatchAppend(j, FailedResult(name, "exception"))

\* app.py:258: map_files_in_folder is called outside the try; os.listdir on an
\* unreadable folder raises out of process_transaction_batch
BatchMapFilesRaises(j) ==
    /\ thread[j].pc = "body"
    /\ fs[thread[j].folders[thread[j].idx + 1]] = "unreadable"
    /\ thread' = [thread EXCEPT ![j].pc = "except_status"]
    /\ UNCHANGED <<batch_jobs, unlocked_access>>
    /\ BatchQuiet

\* app.py:261-269
BatchNoSummary(j) ==
    /\ thread[j].pc = "body"
    /\ fs[thread[j].folders[thread[j].idx + 1]] = "no_summary"
    /\ BatchAppend(j, FailedResult(thread[j].folders[thread[j].idx + 1],
                                   "Summary file not found"))
    /\ UNCHANGED <<batch_jobs, unlocked_access>>
    /\ BatchQuiet

\* app.py:271-298
BatchReconcile(j) ==
    /\ thread[j].pc = "body"
    /\ LET name == thread[j].folders[thread[j].idx + 1] IN
       /\ fs[name] = "summary"
       /\ \E o \in RunOutcomes :
            /\ Called(name, o)
            /\ Seen(name, o)
            /\ CASE o.kind = "raise" ->
                      /\ BatchOnRaise(j, name)
                      /\ NoMail
                 [] o.kind = "none" ->
                      /\ BatchAppend(j, SuccessResult(name, None, FALSE))
                      /\ NoMail
                 [] o.kind = "report" ->
                      IF BelowThreshold(Report(o).summary)
                      THEN \E sent \in SendReconciliationAlert(Report(o)) :
                             /\ Mail(name, sent)
                             /\ BatchAppend(j, SuccessResult(name, Some(Report(o)), TRUE))
                      ELSE /\ BatchAppend(j, SuccessResult(name, Some(Report(o)), FALSE))
                           /\ NoMail
    /\ UNCHANGED <<envVars, unlocked_access, fs, response, batch_results, batch_jobs,
                   poolVars, reqVars, ratesVars, coreVars>>

\* app.py:319: generate_batch_pdf_report returns the path or raises
BatchPdf(j) ==
    /\ thread[j].pc = "pdf"
    /\ \E ok \in BOOLEAN :
         thread' = [thread EXCEPT ![j].pc = IF ok THEN "done_status" ELSE "except_status"]
    /\ UNCHANGED <<batch_jobs, unlocked_access>>
    /\ BatchQuiet

\* app.py:322
BatchDoneStatus(j) ==
    /\ thread[j].pc = "done_status"
    /\ SetJob(j, "status", "completed")
    /\ thread' = [thread EXCEPT ![j].pc = "done_results"]
    /\ BatchQuiet

\* app.py:323
BatchDoneResults(j) ==
    /\ thread[j].pc = "done_results"
    /\ SetJob(j, "results", Some(thread[j].results))
    /\ thread' = [thread EXCEPT ![j].pc = "done_pdf"]
    /\ BatchQuiet

\* app.py:324
BatchDonePdf(j) ==
    /\ thread[j].pc = "done_pdf"
    /\ SetJob(j, "pdf_path", "batch_reconciliation_report.pdf")
    /\ thread' = [thread EXCEPT ![j].pc = "end"]
    /\ BatchQuiet

\* app.py:328
BatchExceptStatus(j) ==
    /\ thread[j].pc = "except_status"
    /\ SetJob(j, "status", "failed")
    /\ thread' = [thread EXCEPT ![j].pc = "except_error"]
    /\ BatchQuiet

\* app.py:329
BatchExceptError(j) ==
    /\ thread[j].pc = "except_error"
    /\ SetJob(j, "error", "exception")
    /\ thread' = [thread EXCEPT ![j].pc = "end"]
    /\ BatchQuiet

\* app.py:1239-1263: the handler reads the job's fields
BatchProgress(j) ==
    /\ route = "batch"
    /\ batch_jobs[j] # None
    /\ response' =
         CASE Job(j).status = "processing" ->
                [status |-> "processing", progress |-> Job(j).progress,
                 processed |-> Job(j).processed,
                 total_transactions |-> Job(j).total_transactions,
                 results |-> None, error |-> "None"]
           [] Job(j).status = "completed" ->
                [status |-> "completed", progress |-> Job(j).progress,
                 processed |-> 0, total_transactions |-> 0,
                 results |-> Job(j).results, error |-> "None"]
           [] OTHER ->
                [status |-> "failed", progress |-> Job(j).progress,
                 processed |-> 0, total_transactions |-> 0,
                 results |-> None, error |-> Job(j).error]
    /\ unlocked_access' = (unlocked_access \/ ThreadLive(j))
    /\ UNCHANGED <<envVars, fs, batch_jobs, thread, batch_results, poolVars, reqVars,
                   ratesVars, coreVars, analysis, mailVars>>

\* app.py:1265-1281: 404 without job, 400 unless the job is 'completed',
\* else session['batch_results'] = job['results']
SaveBatchResults(j) ==
    /\ route = "batch"
    /\ batch_jobs[j] # None
    /\ Job(j).status = "completed"
    /\ batch_results' = [saved |-> TRUE, results |-> Job(j).results]
    /\ unlocked_access' = (unlocked_access \/ ThreadLive(j))
    /\ UNCHANGED <<envVars, fs, batch_jobs, thread, response, poolVars, reqVars,
                   ratesVars, coreVars, analysis, mailVars>>

NoResponse ==
    [status |-> "none", progress |-> "none", processed |-> 0,
     total_transactions |-> 0, results |-> None, error |-> "None"]

-----------------------------------------------------------------------------
(* Batch jobs running at overlapping times: every job's thread builds its  *)
(* PDF at the same output_path                                             *)

OverlapJobIds == 1..MaxJobs

\* the result lists process_transaction_batch can return, by their statuses
BatchResultLists == {<<>>, <<"success">>, <<"failed">>, <<"success", "failed">>}

\* app.py:1215-1224
NewPdfJob == [status |-> "processing", results |-> None, error |-> "None",
              pdf_path |-> "None"]

IdlePdfThread == [pc |-> "idle", results |-> <<>>]

\* app.py:1161-1171: download_batch_pdf takes no job id and serves the file
\* at the fixed path, 404 when there is none
DownloadBatchPdf == output_file

PdfQuiet ==
    UNCHANGED <<envVars, unlocked_access, batchVars, poolVars, reqVars, ratesVars,
                matchVars, extractVars, rcaVars, analysis, mailVars>>

\* app.py:1211-1234
StartOverlappingJob(j) ==
    /\ route = "jobs"
    /\ pdf_jobs[j] = None
    /\ pdf_jobs' = [pdf_jobs EXCEPT ![j] = Some(NewPdfJob)]
    /\ pdf_thread' = [pdf_thread EXCEPT ![j].pc = "batch"]
    /\ UNCHANGED output_file
    /\ PdfQuiet

\* app.py:316: process_transaction_batch returns this job's results or raises
JobProcess(j) ==
    /\ pdf_thread[j].pc = "batch"
    /\ \/ \E r \in BatchResultLists :
            pdf_thread' = [pdf_thread EXCEPT ![j] = [pc |-> "pdf", results |-> r]]
       \/ pdf_thread' = [pdf_thread EXCEPT ![j].pc = "except_status"]
    /\ UNCHANGED <<pdf_jobs, output_file>>
    /\ PdfQuiet

\* app.py:319, :341-342, :480-482: generate_batch_pdf_report builds the
\* document at "batch_reconciliation_report.pdf", or raises
JobPdf(j) ==
    /\ pdf_thread[j].pc = "pdf"
    /\ \/ /\ output_file' = Some(pdf_thread[j].results)
          /\ pdf_thread' = [pdf_thread EXCEPT ![j].pc = "done_status"]
       \/ /\ UNCHANGED output_file
          /\ pdf_thread' = [pdf_thread EXCEPT ![j].pc = "except_status"]
    /\ UNCHANGED pdf_jobs
    /\ PdfQuiet

SetPdfJob(j, field, value) ==
    pdf_jobs' = [pdf_jobs EXCEPT ![j] = Some([pdf_jobs[j][1] EXCEPT ![field] = value])]

\* app.py:322-324, one statement per step
JobDone(j) ==
    /\ CASE pdf_thread[j].pc = "done_status" ->
              /\ SetPdfJob(j, "status", "completed")
              /\ pdf_thread' = [pdf_thread EXCEPT ![j].pc = "done_results"]
         [] pdf_thread[j].pc = "done_results" ->
              /\ SetPdfJob(j, "results", Some(pdf_thread[j].results))
              /\ pdf_thread' = [pdf_thread EXCEPT ![j].pc = "done_pdf"]
         [] pdf_thread[j].pc = "done_pdf" ->
              /\ SetPdfJob(j, "pdf_path", "batch_reconciliation_report.pdf")
              /\ pdf_thread' = [pdf_thread EXCEPT ![j].pc = "end"]
         [] OTHER -> FALSE
    /\ UNCHANGED output_file
    /\ PdfQuiet

\* app.py:326-329, one statement per step
JobExcept(j) ==
    /\ CASE pdf_thread[j].pc = "except_status" ->
              /\ SetPdfJob(j, "status", "failed")
              /\ pdf_thread' = [pdf_thread EXCEPT ![j].pc = "except_error"]
         [] pdf_thread[j].pc = "except_error" ->
              /\ SetPdfJob(j, "error", "exception")
              /\ pdf_thread' = [pdf_thread EXCEPT ![j].pc = "end"]
         [] OTHER -> FALSE
    /\ UNCHANGED output_file
    /\ PdfQuiet

NextJobs ==
    \E j \in OverlapJobIds :
        \/ StartOverlappingJob(j)
        \/ JobProcess(j)
        \/ JobPdf(j)
        \/ JobDone(j)
        \/ JobExcept(j)

-----------------------------------------------------------------------------
(* The workspace path: upload_transactions, process_single_transaction,    *)
(* execute_batch_processing, process_workspace_transactions                *)

\* app.py:947, :1017
POOL_WORKERS == 2

Min(a, b) == IF a < b THEN a ELSE b

\* app.py:797-805
NewTransaction(has_summary) ==
    [status |-> "pending", has_summary |-> has_summary, report_file |-> None,
     error |-> "None", email_sent |-> None]

NoSession ==
    [batch_session_id |-> FALSE, transactions |-> <<>>, auto_process_pending |-> FALSE]

IdleRequest == [kind |-> "idle", pc |-> "idle", sid |-> 0, results |-> <<>>]

NoHttp == [handler |-> "none", status |-> "none", results |-> <<>>]

NoResult == [index |-> 0, status |-> "none", email_sent |-> None, error |-> "None"]

NoFiles == [i \in {} |-> None]

PoolQuiet == UNCHANGED <<envVars, batchVars, ratesVars, coreVars>>

\* transactions[idx] for a Python index: the 1-based position it designates
Position(idx, n) == IF idx >= 0 THEN idx + 1 ELSE n + idx + 1

\* the uploaded ZIPs: per transaction folder, whether it holds a summary file
ZipContents ==
    {<<FALSE>>, <<TRUE, FALSE>>, [i \in 1..MaxTransactions |-> TRUE]}

\* app.py:752-819, a ZIP with transaction folders
UploadTransactions ==
    /\ route = "pool"
    /\ request.kind = "idle"
    /\ requests < MaxRequests
    /\ \E hs \in ZipContents :
         session' = [batch_session_id |-> TRUE,
                     transactions |-> [i \in 1..Len(hs) |-> NewTransaction(hs[i])],
                     auto_process_pending |-> TRUE]
    /\ report_files' = NoFiles
    /\ http' = [handler |-> "upload_transactions", status |-> "success", results |-> <<>>]
    /\ requests' = requests + 1
    /\ UNCHANGED <<unlocked_access, processing_state, request, pool,
                   analysis, mailVars>>
    /\ PoolQuiet

\* app.py:787-789, a ZIP without transaction folders
UploadEmpty ==
    /\ route = "pool"
    /\ request.kind = "idle"
    /\ requests < MaxRequests
    /\ http' = [handler |-> "upload_transactions", status |-> "error", results |-> <<>>]
    /\ requests' = requests + 1
    /\ UNCHANGED <<unlocked_access, session, processing_state, request, pool,
                   report_files, analysis, mailVars>>
    /\ PoolQuiet

Txn(pos) == session.transactions[pos]

SetTxn(pos, txn) ==
    session' = [session EXCEPT !.transactions[pos] = txn]

NewTask(idx, n) ==
    [idx |-> idx, pos |-> Position(idx, n), pc |-> "queued", outcome |-> "pending",
     has_report |-> FALSE, email_sent |-> FALSE, result |-> NoResult]

RunningPcs == {"marked", "analysed", "except_wait"}

Running == {t \in DOMAIN pool : pool[t].pc \in RunningPcs}

\* variant: one pool thread per submitted task
MaxWorkersUnbounded(n) == n

\* app.py:947, :1017
MaxWorkers(n) == Min(POOL_WORKERS, n)

\* a pool thread takes the oldest queued future; app.py:874-875
WorkerMark(t) ==
    /\ pool[t].pc = "queued"
    /\ \A u \in 1..(t - 1) : pool[u].pc # "queued"
    /\ Cardinality(Running) < MaxWorkers(Len(pool))
    /\ SetTxn(pool[t].pos, [Txn(pool[t].pos) EXCEPT !.status = "processing"])
    /\ pool' = [pool EXCEPT ![t].pc = "marked"]
    /\ UNCHANGED <<unlocked_access, processing_state, request, report_files, http,
                   requests, analysis, mailVars>>
    /\ PoolQuiet

\* app.py:878-892: run_rate_analysis, the alert, json.dump of the report
WorkerAnalyse(t) ==
    /\ pool[t].pc = "marked"
    /\ \E o \in RunOutcomes :
         /\ Seen(pool[t].pos, o)
         /\ CASE o.kind = "raise" ->
                   /\ pool' = [pool EXCEPT ![t].pc = "except_wait", ![t].outcome = o.kind]
                   /\ UNCHANGED report_files
                   /\ NoMail
              [] o.kind = "none" ->
                   /\ pool' = [pool EXCEPT ![t].pc = "analysed", ![t].outcome = o.kind,
                                           ![t].has_report = FALSE,
                                           ![t].email_sent = FALSE]
                   /\ report_files' = (pool[t].idx :> None) @@ report_files
                   /\ NoMail
              [] o.kind = "report" ->
                   /\ report_files' = (pool[t].idx :> Some(Report(o))) @@ report_files
                   /\ IF BelowThreshold(Report(o).summary)
                      THEN \E sent \in SendReconciliationAlert(Report(o)) :
                             /\ Mail(pool[t].pos, sent)
                             /\ pool' = [pool EXCEPT ![t].pc = "analysed",
                                                     ![t].outcome = o.kind,
                                                     ![t].has_report = TRUE,
                                                     ![t].email_sent = (sent = "sent")]
                      ELSE /\ pool' = [pool EXCEPT ![t].pc = "analysed",
                                                   ![t].outcome = o.kind,
                                                   ![t].has_report = TRUE,
                                                   ![t].email_sent = FALSE]
                           /\ NoMail
    /\ UNCHANGED <<unlocked_access, session, processing_state, request, http, requests,
                   analysis>>
    /\ PoolQuiet

\* app.py:895-906; with no report, line 899 raises after lines 896-898 ran
WorkerFinish(t) ==
    /\ pool[t].pc = "analysed"
    /\ SetTxn(pool[t].pos, [Txn(pool[t].pos) EXCEPT
                               !.status = "completed",
                               !.report_file = Some(pool[t].idx),
                               !.email_sent = Some(pool[t].email_sent)])
    /\ IF ~pool[t].has_report
       THEN pool' = [pool EXCEPT ![t].pc = "except_wait", ![t].email_sent = FALSE]
       ELSE pool' = [pool EXCEPT
                        ![t].pc = "done", ![t].has_report = FALSE,
                        ![t].email_sent = FALSE,
                        ![t].result = [index |-> pool[t].idx, status |-> "success",
                                       email_sent |-> Some(pool[t].email_sent),
                                       error |-> "None"]]
    /\ UNCHANGED <<unlocked_access, processing_state, request, report_files, http,
                   requests, analysis, mailVars>>
    /\ PoolQuiet

\* variant: the except clause puts the transaction back to 'pending'
WorkerExceptRevert(t) ==
    /\ pool[t].pc = "except_wait"
    /\ SetTxn(pool[t].pos, [Txn(pool[t].pos) EXCEPT
                               !.status = "pending", !.error = "exception"])
    /\ pool' = [pool EXCEPT
                   ![t].pc = "done",
                   ![t].result = [index |-> pool[t].idx, status |-> "failed",
                                  email_sent |-> None, error |-> "exception"]]
    /\ UNCHANGED <<unlocked_access, processing_state, request, report_files, http,
                   requests, analysis, mailVars>>
    /\ PoolQuiet

\* app.py:908-918
WorkerExcept(t) ==
    /\ pool[t].pc = "except_wait"
    /\ SetTxn(pool[t].pos, [Txn(pool[t].pos) EXCEPT
                               !.status = "failed", !.error = "exception"])
    /\ pool' = [pool EXCEPT
                   ![t].pc = "done",
                   ![t].result = [index |-> pool[t].idx, status |-> "failed",
                                  email_sent |-> None, error |-> "exception"]]
    /\ UNCHANGED <<unlocked_access, processing_state, request, report_files, http,
                   requests, analysis, mailVars>>
    /\ PoolQuiet

\* app.py:927-931: 0-based indices of the pending transactions with a summary file
PendingTasks(txns) ==
    SelectSeq([i \in 1..Len(txns) |-> i - 1],
              LAMBDA i : txns[i + 1].status = "pending" /\ txns[i + 1].has_summary)

AllCollected == \A t \in DOMAIN pool : pool[t].pc = "collected"

WorkerQuiet == UNCHANGED <<report_files, analysis, mailVars>>

\* app.py:924-934: nothing is pending
ExecuteNothingPending ==
    /\ route = "pool"
    /\ request.kind = "idle"
    /\ requests < MaxRequests
    /\ PendingTasks(session.transactions) = <<>>
    /\ http' = [handler |-> "execute_batch_processing", status |-> "completed",
                results |-> <<>>]
    /\ requests' = requests + 1
    /\ UNCHANGED <<unlocked_access, session, processing_state, request, pool>>
    /\ WorkerQuiet
    /\ PoolQuiet

\* app.py:924-955: the ledger entry is created under the lock and every
\* pending task is submitted
ExecuteStart ==
    /\ route = "pool"
    /\ request.kind = "idle"
    /\ requests < MaxRequests
    /\ LET tasks == PendingTasks(session.transactions) IN
       /\ tasks # <<>>
       /\ processing_state' =
            Append(processing_state,
                   [status |-> "processing", current_index |-> 0,
                    total |-> Len(tasks), completed |-> 0])
       /\ pool' = [t \in 1..Len(tasks) |->
                     NewTask(tasks[t], Len(session.transactions))]
    /\ request' = [kind |-> "execute", pc |-> "collect",
                   sid |-> Len(processing_state) + 1, results |-> <<>>]
    /\ requests' = requests + 1
    /\ http' = NoHttp
    /\ UNCHANGED <<unlocked_access, session>>
    /\ WorkerQuiet
    /\ PoolQuiet

\* app.py:958-966: as_completed yields a finished future; the ledger entry
\* is updated under the lock
ExecuteCollect(t) ==
    /\ request.kind = "execute"
    /\ request.pc = "collect"
    /\ pool[t].pc = "done"
    /\ request' = [request EXCEPT !.results = Append(@, pool[t].result)]
    /\ pool' = [pool EXCEPT ![t].pc = "collected"]
    /\ processing_state' =
         [processing_state EXCEPT
            ![request.sid].completed = @ + 1,
            ![request.sid].current_index = pool[t].result.index]
    /\ UNCHANGED <<unlocked_access, session, http, requests>>
    /\ WorkerQuiet
    /\ PoolQuiet

\* app.py:969-982
ExecuteFinish ==
    /\ request.kind = "execute"
    /\ request.pc = "collect"
    /\ AllCollected
    /\ processing_state' = [processing_state EXCEPT ![request.sid].status = "completed"]
    /\ session' = [session EXCEPT !.auto_process_pending = FALSE]
    /\ http' = [handler |-> "execute_batch_processing", status |-> "completed",
                results |-> request.results]
    /\ request' = IdleRequest
    /\ pool' = <<>>
    /\ UNCHANGED <<unlocked_access, requests>>
    /\ WorkerQuiet
    /\ PoolQuiet

\* the lists of transaction_indices a client posts
IndexLists ==
    {<<0>>, <<0, 0>>, <<2, 0 - 1>>, <<MaxTransactions>>,
     <<0 - MaxTransactions - 1>>}

\* app.py:1001-1025
ProcessWorkspaceTransactions ==
    /\ route = "pool"
    /\ request.kind = "idle"
    /\ requests < MaxRequests
    /\ requests' = requests + 1
    /\ \E indices \in IndexLists :
         LET n == Len(session.transactions)
             tasks == SelectSeq(indices, LAMBDA idx : idx < n)
         IN  CASE \E k \in DOMAIN indices : indices[k] < 0 - n ->
                    \* transactions[idx] raises IndexError, answered with a 500
                    /\ http' = [handler |-> "process_workspace_transactions",
                                status |-> "error", results |-> <<>>]
                    /\ UNCHANGED <<request, pool>>
               [] OTHER ->
                    IF tasks = <<>>
                    THEN /\ http' = [handler |-> "process_workspace_transactions",
                                     status |-> "ok", results |-> <<>>]
                         /\ UNCHANGED <<request, pool>>
                    ELSE /\ request' = [kind |-> "workspace", pc |-> "collect",
                                        sid |-> 0, results |-> <<>>]
                         /\ pool' = [t \in 1..Len(tasks) |-> NewTask(tasks[t], n)]
                         /\ http' = NoHttp
    /\ UNCHANGED <<unlocked_access, session, processing_state>>
    /\ WorkerQuiet
    /\ PoolQuiet

\* app.py:1028-1030
WorkspaceCollect(t) ==
    /\ request.kind = "workspace"
    /\ request.pc = "collect"
    /\ pool[t].pc = "done"
    /\ request' = [request EXCEPT !.results = Append(@, pool[t].result)]
    /\ pool' = [pool EXCEPT ![t].pc = "collected"]
    /\ UNCHANGED <<unlocked_access, session, processing_state, http, requests>>
    /\ WorkerQuiet
    /\ PoolQuiet

\* app.py:1032-1037
WorkspaceFinish ==
    /\ request.kind = "workspace"
    /\ request.pc = "collect"
    /\ AllCollected
    /\ session' = [session EXCEPT !.auto_process_pending = FALSE]
    /\ http' = [handler |-> "process_workspace_transactions", status |-> "ok",
                results |-> request.results]
    /\ request' = IdleRequest
    /\ pool' = <<>>
    /\ UNCHANGED <<unlocked_access, processing_state, requests>>
    /\ WorkerQuiet
    /\ PoolQuiet

\* app.py:1042-1077: what workspace_result answers for a 0-based index
WorkspaceResult(index) ==
    IF index >= Len(session.transactions) THEN "not_found"
    ELSE IF Txn(index + 1).status # "completed" THEN "not_processed"
    ELSE IF Txn(index + 1).report_file = None THEN "not_available"
    ELSE IF Txn(index + 1).report_file[1] \notin DOMAIN report_files THEN "file_not_found"
    ELSE "report"

\* app.py:824-845: what transaction_browser answers for the session as it is
TransactionBrowser ==
    IF ~session.batch_session_id THEN "redirect_upload"
    ELSE IF session.transactions = <<>> THEN "redirect_upload"
    ELSE IF session.auto_process_pending THEN "redirect_processing"
    ELSE "workspace"

-----------------------------------------------------------------------------
(* rates_file: one reconciliation from uploaded files *)

\* app.py:710-747 (POST)
RatesFile ==
    /\ route = "rates"
    /\ requests < MaxRequests
    /\ requests' = requests + 1
    /\ \E summary_file \in BOOLEAN : \E o \in RunOutcomes :
         IF ~summary_file
         THEN \* app.py:714-715: ValueError, answered with the error message
              /\ http' = [handler |-> "rates_file", status |-> "error", results |-> <<>>]
              /\ UNCHANGED <<last_rate_report, mailVars>>
         ELSE /\ Seen(1, o)
              /\ CASE o.kind = "raise" ->
                        /\ http' = [handler |-> "rates_file", status |-> "error",
                                    results |-> <<>>]
                        /\ UNCHANGED last_rate_report
                        /\ NoMail
                   [] o.kind = "none" ->
                        /\ http' = [handler |-> "rates_file", status |-> "ok",
                                    results |-> <<>>]
                        /\ last_rate_report' = None
                        /\ NoMail
                   [] o.kind = "report" ->
                        /\ http' = [handler |-> "rates_file", status |-> "ok",
                                    results |-> <<>>]
                        /\ last_rate_report' = Some(Report(o))
                        /\ \E sent \in SendReconciliationAlert(Report(o)) : Mail(1, sent)
    /\ UNCHANGED <<envVars, unlocked_access, batchVars, poolVars, coreVars,
                   analysis>>

-----------------------------------------------------------------------------
(* ReconciliationMatcher: match(fee_lines, invoice_lines) *)

TOLERANCE == 1

STATUSES == {"matched", "higher", "lower", "missing"}

Keys == {<<"IntegrityFee", "A">>, <<"IntegrityFee", "B">>, <<"ServiceFee", "B">>}

FinalAmounts == {0 - 50, 0, 99, 101, 10000}

VisaAmounts == {0 - 100, 0, 100, 9900, 9901}

FeeLine(key, amount) ==
    [fee_type |-> key[1], rate_chart |-> key[2], final_amount |-> amount]

InvoiceLine(key, amount) ==
    [fee_type |-> key[1], rate_chart |-> key[2], visa_amount |-> amount]

KeyOf(line) == <<line.fee_type, line.rate_chart>>

\* step 1-2: the invoice amount filed under a key, None when the key is absent
Lookup(lines, key) ==
    LET at == {k \in DOMAIN lines : KeyOf(lines[k]) = key}
    IN  IF at = {} THEN None
        ELSE Some(lines[CHOOSE k \in at : \A m \in at : m <= k].visa_amount)

\* variant: a zero invoice amount gives a difference of 0
PercentageDiffZeroAsEqual(final, visa) ==
    IF visa # 0
    THEN [kind |-> "finite",
          num |-> IF visa > 0 THEN (final - visa) * 100 ELSE (visa - final) * 100,
          den |-> Abs(visa)]
    ELSE [kind |-> "finite", num |-> 0, den |-> 1]

\* step 2: (final - visa) / visa * 100 as the exact fraction num / den, den > 0;
\* with visa = 0 the sentinel "inf" or "-inf", or 0 when final = 0 as well
PercentageDiff(final, visa) ==
    IF visa # 0
    THEN [kind |-> "finite",
          num |-> IF visa > 0 THEN (final - visa) * 100 ELSE (visa - final) * 100,
          den |-> Abs(visa)]
    ELSE IF final = 0 THEN [kind |-> "finite", num |-> 0, den |-> 1]
    ELSE IF final > 0 THEN [kind |-> "inf", num |-> 1, den |-> 1]
    ELSE [kind |-> "-inf", num |-> 0 - 1, den |-> 1]

\* variant: the tolerance bound is exclusive
ClassifyStrict(d) ==
    CASE d.kind = "inf" -> "higher"
      [] d.kind = "-inf" -> "lower"
      [] OTHER ->
           IF Abs(d.num) < TOLERANCE * d.den THEN "matched"
           ELSE IF d.num >= TOLERANCE * d.den THEN "higher"
           ELSE "lower"

\* step 3: the tolerance rule on d = percentage_diff
Classify(d) ==
    CASE d.kind = "inf" -> "higher"
      [] d.kind = "-inf" -> "lower"
      [] OTHER ->
           IF Abs(d.num) <= TOLERANCE * d.den THEN "matched"
           ELSE IF d.num > TOLERANCE * d.den THEN "higher"
           ELSE "lower"

\* variant: an invoice amount of zero is taken for an absent invoice line
MatchOneZeroAbsent(line, found) ==
    IF found = None \/ found = Some(0)
    THEN [fee_type |-> line.fee_type, rate_chart |-> line.rate_chart,
          final_amount |-> line.final_amount, visa_amount |-> found,
          percentage_diff |-> None, diff_status |-> "missing"]
    ELSE [fee_type |-> line.fee_type, rate_chart |-> line.rate_chart,
          final_amount |-> line.final_amount, visa_amount |-> found,
          percentage_diff |-> Some(PercentageDiff(line.final_amount, found[1])),
          diff_status |-> Classify(PercentageDiff(line.final_amount, found[1]))]

\* step 2: the MatchResult of one FeeLine
MatchOne(line, found) ==
    IF found = None
    THEN [fee_type |-> line.fee_type, rate_chart |-> line.rate_chart,
          final_amount |-> line.final_amount, visa_amount |-> None,
          percentage_diff |-> None, diff_status |-> "missing"]
    ELSE [fee_type |-> line.fee_type, rate_chart |-> line.rate_chart,
          final_amount |-> line.final_amount, visa_amount |-> found,
          percentage_diff |-> Some(PercentageDiff(line.final_amount, found[1])),
          diff_status |-> Classify(PercentageDiff(line.final_amount, found[1]))]

\* variant: a later invocation walks the fee lines from the end
MatchLinesUnstable(fees, invoices) ==
    IF match_rows = None
    THEN [i \in 1..Len(fees) |-> MatchOne(fees[i], Lookup(invoices, KeyOf(fees[i])))]
    ELSE [i \in 1..Len(fees) |->
            MatchOne(fees[Len(fees) + 1 - i],
                     Lookup(invoices, KeyOf(fees[Len(fees) + 1 - i])))]

MatchLines(fees, invoices) ==
    [i \in 1..Len(fees) |-> MatchOne(fees[i], Lookup(invoices, KeyOf(fees[i])))]

\* step 4: the invoice lines whose key no FeeLine carries, in invoice order
UnmatchedInvoiceLines(fees, invoices) ==
    SelectSeq(invoices,
              LAMBDA line : \A i \in DOMAIN fees : KeyOf(fees[i]) # KeyOf(line))

Match ==
    /\ route = "match"
    /\ match_rows = None
    /\ match_rows' = Some(MatchLines(fee_lines, invoice_lines))
    /\ unmatched_invoice_lines' = UnmatchedInvoiceLines(fee_lines, invoice_lines)
    /\ UNCHANGED <<envVars, unlocked_access, batchVars, poolVars, reqVars, ratesVars,
                   extractVars, rcaVars, pdfVars, fee_lines, invoice_lines,
                   match_summary, rerun_report, analysis, mailVars>>

-----------------------------------------------------------------------------
(* SummaryAggregator: aggregate(sheets, unmatched_invoice_count) *)

RECURSIVE SumFinal(_)
SumFinal(rows) ==
    IF rows = <<>> THEN 0 ELSE Head(rows).final_amount + SumFinal(Tail(rows))

\* missing lines contribute 0
RECURSIVE SumVisa(_)
SumVisa(rows) ==
    IF rows = <<>> THEN 0
    ELSE (IF Head(rows).visa_amount = None THEN 0 ELSE Head(rows).visa_amount[1])
         + SumVisa(Tail(rows))

MatchedItems(rows) == Cardinality({i \in DOMAIN rows : rows[i].diff_status = "matched"})

VisaPresent(rows) == Cardinality({i \in DOMAIN rows : rows[i].visa_amount # None})

\* matched items against total_visa_items, as the fraction num / den
FeeReconciledPercentage(matched, visa_items) ==
    [num |-> 100 * matched, den |-> IF visa_items > 0 THEN visa_items ELSE 1]

\* variant: every MatchResult counts as an invoice item
AggregateCountingRows(rows, unmatched_invoice_count) ==
    Summary(SumFinal(rows), SumVisa(rows))
    @@ [matched_items |-> MatchedItems(rows),
        total_visa_items |-> Len(rows) + unmatched_invoice_count,
        total_calculated_items |-> Len(rows),
        fee_reconciled_percentage |->
            FeeReconciledPercentage(MatchedItems(rows),
                                    Len(rows) + unmatched_invoice_count)]

\* the Summary of the rows of all sheets
Aggregate(rows, unmatched_invoice_count) ==
    Summary(SumFinal(rows), SumVisa(rows))
    @@ [matched_items |-> MatchedItems(rows),
        total_visa_items |-> VisaPresent(rows) + unmatched_invoice_count,
        total_calculated_items |-> Len(rows),
        fee_reconciled_percentage |->
            FeeReconciledPercentage(MatchedItems(rows),
                                    VisaPresent(rows) + unmatched_invoice_count)]

BuildSummary ==
    /\ route = "match"
    /\ match_rows # None
    /\ match_summary = None
    /\ match_summary' = Some(Aggregate(match_rows[1], Len(unmatched_invoice_lines)))
    /\ UNCHANGED <<envVars, unlocked_access, batchVars, poolVars, reqVars, ratesVars,
                   extractVars, rcaVars, pdfVars, fee_lines, invoice_lines, match_rows, unmatched_invoice_lines,
                   rerun_report, analysis, mailVars>>

\* match() and aggregate() once more on the same lines
Rerun ==
    /\ route = "match"
    /\ match_summary # None
    /\ rerun_report = None
    /\ rerun_report' =
         Some([sheets |-> <<MatchLines(fee_lines, invoice_lines)>>,
               summary |->
                   Aggregate(MatchLines(fee_lines, invoice_lines),
                             Len(UnmatchedInvoiceLines(fee_lines, invoice_lines)))])
    /\ UNCHANGED <<envVars, unlocked_access, batchVars, poolVars, reqVars, ratesVars,
                   extractVars, rcaVars, pdfVars, fee_lines, invoice_lines, match_rows, unmatched_invoice_lines,
                   match_summary, analysis, mailVars>>

\* the sequences of at most n fee lines / invoice lines
RECURSIVE FeeLinesUpTo(_)
FeeLinesUpTo(n) ==
    IF n = 0 THEN {<<>>}
    ELSE FeeLinesUpTo(n - 1) \cup
         {Append(ls, FeeLine(k, a)) :
            ls \in {l \in FeeLinesUpTo(n - 1) : Len(l) = n - 1},
            k \in Keys, a \in FinalAmounts}

RECURSIVE InvoiceLinesUpTo(_)
InvoiceLinesUpTo(n) ==
    IF n = 0 THEN {<<>>}
    ELSE InvoiceLinesUpTo(n - 1) \cup
         {Append(ls, InvoiceLine(k, a)) :
            ls \in {l \in InvoiceLinesUpTo(n - 1) : Len(l) = n - 1},
            k \in Keys, a \in VisaAmounts}

\* the extractors' duplicate-key policy leaves one line per key
DistinctKeys(lines) ==
    \A a, b \in DOMAIN lines : a # b => KeyOf(lines[a]) # KeyOf(lines[b])

-----------------------------------------------------------------------------
(* FeeLineExtractor: the duplicate-key policy *)

SheetAmounts == {10, 20, 30}

\* the sequences of at most n rows, each a (fee_type, rate_chart) key and an amount
RECURSIVE SheetRowsUpTo(_)
SheetRowsUpTo(n) ==
    IF n = 0 THEN {<<>>}
    ELSE SheetRowsUpTo(n - 1) \cup
         {Append(rs, FeeLine(k, a)) :
            rs \in {r \in SheetRowsUpTo(n - 1) : Len(r) = n - 1},
            k \in Keys, a \in SheetAmounts}

\* variant: the first row of a key is kept
PutLineFirstWins(acc, line) ==
    IF \E k \in DOMAIN acc.lines : KeyOf(acc.lines[k]) = KeyOf(line)
    THEN [lines |-> acc.lines, warnings |-> Append(acc.warnings, KeyOf(line))]
    ELSE [lines |-> Append(acc.lines, line), warnings |-> acc.warnings]

\* one row enters the lines kept so far: a row whose key is already there
\* overwrites that line, and the collision is recorded
PutLine(acc, line) ==
    IF \E k \in DOMAIN acc.lines : KeyOf(acc.lines[k]) = KeyOf(line)
    THEN [lines |-> [k \in DOMAIN acc.lines |->
                        IF KeyOf(acc.lines[k]) = KeyOf(line) THEN line ELSE acc.lines[k]],
          warnings |-> Append(acc.warnings, KeyOf(line))]
    ELSE [lines |-> Append(acc.lines, line), warnings |-> acc.warnings]

\* the rows of a sheet, taken in sheet order
RECURSIVE ExtractLines(_)
ExtractLines(rows) ==
    IF rows = <<>> THEN [lines |-> <<>>, warnings |-> <<>>]
    ELSE PutLine(ExtractLines(SubSeq(rows, 1, Len(rows) - 1)), rows[Len(rows)])

Extract ==
    /\ route = "extract"
    /\ extraction = None
    /\ extraction' = Some(ExtractLines(sheet_rows))
    /\ UNCHANGED <<envVars, unlocked_access, batchVars, poolVars, reqVars, ratesVars,
                   matchVars, sheet_rows, rcaVars, pdfVars, analysis, mailVars>>

-----------------------------------------------------------------------------
(* RootCauseAnalyzer (src/root_cause_analysis.py) *)

IdleRca == [pc |-> "idle", passed_gate |-> FALSE, result |-> "None"]

ResultRow(status) ==
    [fee_type |-> "IntegrityFee", diff_status |-> status, final_amount_display |-> "100.00"]

\* the sequences of at most n rows of a Report sheet
RECURSIVE ResultRowsUpTo(_)
ResultRowsUpTo(n) ==
    IF n = 0 THEN {<<>>}
    ELSE ResultRowsUpTo(n - 1) \cup
         {Append(rs, ResultRow(st)) :
            rs \in {r \in ResultRowsUpTo(n - 1) : Len(r) = n - 1}, st \in STATUSES}

\* the sequences of at most n sheets
RECURSIVE SheetsUpTo(_)
SheetsUpTo(n) ==
    IF n = 0 THEN {<<>>}
    ELSE SheetsUpTo(n - 1) \cup
         {Append(ss, [rows |-> rs]) :
            ss \in {x \in SheetsUpTo(n - 1) : Len(x) = n - 1},
            rs \in ResultRowsUpTo(MaxResultRows)}

\* a Report as the analyzer reads it: kind "full" has summary and
\* amount_reconciled_percentage, "no_field" a summary without that field,
\* "no_summary" no summary at all
RcaReport(kind, totals, sheets) ==
    [kind |-> kind, summary |-> Summary(totals[1], totals[2]), sheets |-> sheets]

NoRcaReport == RcaReport("no_summary", <<0, 0>>, <<>>)

\* root_cause_analysis.py:255-263
Discrepancy(row) ==
    [fee_type |-> row.fee_type, diff_status |-> row.diff_status,
     calculated_value |-> row.final_amount_display]

\* variant: rows without invoice line are left out
RowDiscrepanciesWithoutMissing(rows) ==
    LET kept == SelectSeq(rows, LAMBDA row : row.diff_status \in {"higher", "lower"})
    IN  [k \in 1..Len(kept) |-> Discrepancy(kept[k])]

\* root_cause_analysis.py:244-263: the inner loop over the rows of a sheet
RECURSIVE RowDiscrepancies(_)
RowDiscrepancies(rows) ==
    IF rows = <<>> THEN <<>>
    ELSE (IF Head(rows).diff_status \in {"higher", "lower", "missing"}
          THEN <<Discrepancy(Head(rows))>> ELSE <<>>)
         \o RowDiscrepancies(Tail(rows))

\* root_cause_analysis.py:237-265: the outer loop over the sheets
RECURSIVE ExtractDiscrepancies(_)
ExtractDiscrepancies(sheets) ==
    IF sheets = <<>> THEN <<>>
    ELSE RowDiscrepancies(Head(sheets).rows) \o ExtractDiscrepancies(Tail(sheets))

ExtractDiscrepanciesCall ==
    /\ route = "discrepancies"
    /\ discrepancies = None
    /\ discrepancies' = Some(ExtractDiscrepancies(rca_report.sheets))
    /\ UNCHANGED <<envVars, unlocked_access, batchVars, poolVars, reqVars, ratesVars,
                   matchVars, extractVars, pdfVars, rca_report, api_key, rca, openai_calls,
                   analysis, mailVars>>

\* root_cause_analysis.py:86: report.get("summary", {}).get(field, 100)
AmountReconciledOrDefault(report) ==
    IF report.kind = "full" THEN report.summary.amount_reconciled_percentage
    ELSE [num |-> 100, den |-> 1]

\* variant: a report at exactly 95 passes the gate
GateClosedAbove(report) ==
    AmountReconciledOrDefault(report).num
        > ALERT_THRESHOLD * AmountReconciledOrDefault(report).den

\* root_cause_analysis.py:88: amount_reconciled >= 95
GateClosed(report) ==
    AmountReconciledOrDefault(report).num
        >= ALERT_THRESHOLD * AmountReconciledOrDefault(report).den

\* generate_analysis (root_cause_analysis.py:35-73): the API answers with a
\* text, with no choices, or the call raises
OpenAiOutcomes == {"text", "no_choices", "exception"}

\* root_cause_analysis.py:75-111
AnalyzeReconciliationDiscrepancies ==
    /\ route = "rca"
    /\ rca.pc = "idle"
    /\ CASE GateClosed(rca_report) ->
              /\ rca' = [pc |-> "returned", passed_gate |-> FALSE, result |-> "None"]
              /\ UNCHANGED openai_calls
         [] ~GateClosed(rca_report) /\ ~api_key ->
              /\ rca' = [pc |-> "returned", passed_gate |-> TRUE,
                         result |-> "unavailable"]
              /\ UNCHANGED openai_calls
         [] ~GateClosed(rca_report) /\ api_key
               /\ ExtractDiscrepancies(rca_report.sheets) = <<>> ->
              /\ rca' = [pc |-> "returned", passed_gate |-> TRUE,
                         result |-> "no_discrepancies"]
              /\ UNCHANGED openai_calls
         [] OTHER ->
              /\ \E outcome \in OpenAiOutcomes :
                   rca' = [pc |-> "returned", passed_gate |-> TRUE,
                           result |-> IF outcome = "text" THEN "analysis" ELSE "None"]
              /\ openai_calls' = openai_calls + 1
    /\ UNCHANGED <<envVars, unlocked_access, batchVars, poolVars, reqVars, ratesVars,
                   matchVars, extractVars, pdfVars, rca_report, api_key, discrepancies,
                   analysis, mailVars>>

\* the reports handed to analyze_reconciliation_discrepancies
RcaSheets ==
    {<<>>,
     <<[rows |-> <<ResultRow("matched")>>]>>,
     <<[rows |-> <<ResultRow("higher")>>]>>,
     <<[rows |-> <<ResultRow("matched")>>],
       [rows |-> <<ResultRow("lower"), ResultRow("missing")>>]>>}

RcaReports ==
    {RcaReport(kind, <<0, 0>>, sheets) :
        kind \in {"no_summary", "no_field"}, sheets \in RcaSheets}
    \cup {RcaReport("full", t, sheets) : t \in Totals, sheets \in RcaSheets}

-----------------------------------------------------------------------------

InitCommon ==
    /\ unlocked_access = FALSE
    /\ batch_results = NoBatchResults
    /\ batch_jobs = [j \in JobIds |-> None]
    /\ thread = [j \in JobIds |-> NoThread]
    /\ response = NoResponse
    /\ session = NoSession
    /\ processing_state = <<>>
    /\ request = IdleRequest
    /\ pool = <<>>
    /\ report_files = NoFiles
    /\ http = NoHttp
    /\ requests = 0
    /\ last_rate_report = None
    /\ match_rows = None
    /\ unmatched_invoice_lines = <<>>
    /\ match_summary = None
    /\ rerun_report = None
    /\ extraction = None
    /\ discrepancies = None
    /\ rca = IdleRca
    /\ openai_calls = 0
    /\ pdf_jobs = [j \in OverlapJobIds |-> None]
    /\ pdf_thread = [j \in OverlapJobIds |-> IdlePdfThread]
    /\ output_file = None
    /\ analysis = [n \in Names |-> [calls |-> 0, raised |-> 0]]
    /\ below_reports = [n \in Names |-> 0]
    /\ smtp_attempts = [n \in Names |-> 0]
    /\ smtp_delivered = [n \in Names |-> 0]

NoLines == <<>>

\* the inputs of the entry points a behaviour does not exercise
NoCoreInputs ==
    /\ sheet_rows = <<>>
    /\ rca_report = NoRcaReport
    /\ api_key = FALSE

InitBatch ==
    /\ route = "batch"
    /\ base_path_exists = TRUE
    /\ NoCoreInputs
    /\ EMAIL_ENABLED \in BOOLEAN
    /\ fs \in [Names -> FolderKinds]
    /\ fee_lines = NoLines
    /\ invoice_lines = NoLines
    /\ InitCommon

InitPool ==
    /\ route = "pool"
    /\ base_path_exists = FALSE
    /\ NoCoreInputs
    /\ EMAIL_ENABLED \in BOOLEAN
    /\ fs = [n \in Names |-> "absent"]
    /\ fee_lines = NoLines
    /\ invoice_lines = NoLines
    /\ InitCommon

InitRates ==
    /\ route = "rates"
    /\ base_path_exists = FALSE
    /\ NoCoreInputs
    /\ EMAIL_ENABLED \in BOOLEAN
    /\ fs = [n \in Names |-> "absent"]
    /\ fee_lines = NoLines
    /\ invoice_lines = NoLines
    /\ InitCommon

InitMatch ==
    /\ route = "match"
    /\ base_path_exists = FALSE
    /\ NoCoreInputs
    /\ EMAIL_ENABLED = FALSE
    /\ fs = [n \in Names |-> "absent"]
    /\ fee_lines \in {l \in FeeLinesUpTo(MaxFeeLines) : DistinctKeys(l)}
    /\ invoice_lines \in {l \in InvoiceLinesUpTo(MaxInvoiceLines) : DistinctKeys(l)}
    /\ InitCommon

InitExtract ==
    /\ route = "extract"
    /\ base_path_exists = FALSE
    /\ EMAIL_ENABLED = FALSE
    /\ fs = [n \in Names |-> "absent"]
    /\ fee_lines = NoLines
    /\ invoice_lines = NoLines
    /\ sheet_rows \in SheetRowsUpTo(MaxSheetRows)
    /\ rca_report = NoRcaReport
    /\ api_key = FALSE
    /\ InitCommon

InitDiscrepancies ==
    /\ route = "discrepancies"
    /\ base_path_exists = FALSE
    /\ EMAIL_ENABLED = FALSE
    /\ fs = [n \in Names |-> "absent"]
    /\ fee_lines = NoLines
    /\ invoice_lines = NoLines
    /\ sheet_rows = <<>>
    /\ rca_report \in {RcaReport("full", <<0, 0>>, sheets) : sheets \in SheetsUpTo(MaxSheets)}
    /\ api_key = FALSE
    /\ InitCommon

InitRca ==
    /\ route = "rca"
    /\ base_path_exists = FALSE
    /\ EMAIL_ENABLED = FALSE
    /\ fs = [n \in Names |-> "absent"]
    /\ fee_lines = NoLines
    /\ invoice_lines = NoLines
    /\ sheet_rows = <<>>
    /\ rca_report \in RcaReports
    /\ api_key \in BOOLEAN
    /\ InitCommon

InitJobs ==
    /\ route = "jobs"
    /\ base_path_exists = TRUE
    /\ NoCoreInputs
    /\ EMAIL_ENABLED = FALSE
    /\ fs = [n \in Names |-> "absent"]
    /\ fee_lines = NoLines
    /\ invoice_lines = NoLines
    /\ InitCommon

NextBatch ==
    \E j \in JobIds :
        \/ StartBatchAnalysis(j)
        \/ BasePathRemoved(j)
        \/ BatchScan(j)
        \/ BatchFetchProgress(j)
        \/ BatchFetchTotal(j)
        \/ BatchFetchProcessed(j)
        \/ BatchLoop(j)
        \/ BatchRecCurrent(j)
        \/ BatchRecProcessed(j)
        \/ BatchMapFilesRaises(j)
        \/ BatchNoSummary(j)
        \/ BatchReconcile(j)
        \/ BatchPdf(j)
        \/ BatchDoneStatus(j)
        \/ BatchDoneResults(j)
        \/ BatchDonePdf(j)
        \/ BatchExceptStatus(j)
        \/ BatchExceptError(j)
        \/ BatchProgress(j)
        \/ SaveBatchResults(j)

NextPool ==
    \/ UploadTransactions
    \/ UploadEmpty
    \/ ExecuteNothingPending
    \/ ExecuteStart
    \/ ExecuteFinish
    \/ ProcessWorkspaceTransactions
    \/ WorkspaceFinish
    \/ \E t \in DOMAIN pool :
          \/ WorkerMark(t)
          \/ WorkerAnalyse(t)
          \/ WorkerFinish(t)
          \/ WorkerExcept(t)
          \/ ExecuteCollect(t)
          \/ WorkspaceCollect(t)

NextRates == RatesFile

NextMatch == Match \/ BuildSummary \/ Rerun

Init ==
    \/ InitBatch
    \/ InitPool
    \/ InitRates
    \/ InitMatch
    \/ InitExtract
    \/ InitDiscrepancies
    \/ InitRca
    \/ InitJobs

Next ==
    \/ NextBatch
    \/ NextPool
    \/ NextRates
    \/ NextMatch
    \/ Extract
    \/ ExtractDiscrepanciesCall
    \/ AnalyzeReconciliationDiscrepancies
    \/ NextJobs

Spec == Init /\ [][Next]_vars

SpecBatch == InitBatch /\ [][NextBatch]_vars

SpecMatch == InitMatch /\ [][NextMatch]_vars

SpecPool == InitPool /\ [][NextPool]_vars

SpecExtract == InitExtract /\ [][Extract]_vars

SpecDiscrepancies == InitDiscrepancies /\ [][ExtractDiscrepanciesCall]_vars

SpecJobs == InitJobs /\ [][NextJobs]_vars

SpecRca == InitRca /\ [][AnalyzeReconciliationDiscrepancies]_vars

-----------------------------------------------------------------------------
(* Properties *)

\* the results list of process_transaction_batch, as built so far
Results(j) == thread[j].results

\* the loop of process_transaction_batch is no longer running
LoopLeft(j) == thread[j].pc \in {"pdf", "done_status", "done_results", "done_pdf",
                                 "except_status", "except_error", "end"}

\* the transactions of the session with status 'processing'
Processing == {p \in DOMAIN session.transactions : Txn(p).status = "processing"}

\* |tf - tv| / max(tv, epsilon) > 5 %, from the two totals of a summary
TotalsBelow(summary) ==
    100 * Abs(summary.total_final_amount - summary.total_visa_amount)
        > (100 - ALERT_THRESHOLD)
            * (IF summary.total_visa_amount > EPSILON THEN summary.total_visa_amount
               ELSE EPSILON)

Occurrences(seq, x) == Cardinality({k \in DOMAIN seq : seq[k] = x})

\* C1: batch isolation.  process_transaction_batch leaves its loop only after
\* the last folder; every folder visited has exactly one result, under its
\* own name; a folder with a summary file was reconciled exactly once and its
\* result is 'failed' exactly when its own reconciliation raised.  On the
\* worker-pool paths every submitted task gets exactly one result, 'failed'
\* exactly when its own processing raised.
BatchIsolation ==
    /\ \A j \in JobIds :
         /\ Len(Results(j)) = thread[j].idx
         /\ LoopLeft(j) => thread[j].idx = Len(thread[j].folders)
         /\ \A i \in DOMAIN Results(j) :
              LET r == Results(j)[i]
                  n == thread[j].folders[i]
              IN  /\ r.transaction_name = n
                  /\ fs[n] = "summary" =>
                        /\ analysis[n].calls = 1
                        /\ (r.status = "failed") <=> (analysis[n].raised = 1)
    /\ \A t \in DOMAIN pool :
         pool[t].pc \in {"done", "collected"} =>
            /\ pool[t].result.index = pool[t].idx
            /\ (pool[t].result.status = "failed") <=> (pool[t].outcome \in {"raise", "none"})
            /\ (pool[t].result.status = "success") <=> (pool[t].outcome = "report")
    /\ (request.kind # "idle" /\ AllCollected) =>
         /\ Len(request.results) = Len(pool)
         /\ \A t \in DOMAIN pool :
              Occurrences(request.results, pool[t].result)
                 = Occurrences([u \in DOMAIN pool |-> pool[u].result], pool[t].result)

\* C2: failure is never a partial report.  Every result of
\* process_transaction_batch is either 'failed' with report None, email_sent
\* False and an error reason, or 'success' with error None; a folder without
\* a summary file gives 'failed' with 'Summary file not found', and the
\* reconciliation is never called for it.
FailureNeverPartial ==
    /\ \A j \in JobIds : \A i \in DOMAIN Results(j) :
         LET r == Results(j)[i] IN
         /\ \/ /\ r.status = "failed"
               /\ r.report = None
               /\ r.email_sent = FALSE
               /\ r.error # "None"
            \/ /\ r.status = "success"
               /\ r.error = "None"
         /\ fs[r.transaction_name] = "no_summary" =>
               /\ r.status = "failed"
               /\ r.error = "Summary file not found"
    /\ \A n \in Names : fs[n] = "no_summary" => analysis[n].calls = 0

\* a batch whose results hold a folder without summary file, a reconciliation
\* that raised and a successful one
FailureNeverPartialWitness ==
    \E j \in JobIds : \E a, b, c \in DOMAIN Results(j) :
        /\ Results(j)[a].error = "Summary file not found"
        /\ Results(j)[b].error = "exception"
        /\ Results(j)[c].status = "success"
        /\ Results(j)[c].report # None

\* C3: alert threshold.  On every path (rates_file, process_transaction_batch,
\* process_single_transaction) the SMTP sends attempted for a transaction are
\* exactly its reports with a percentage strictly below 95 when alerts are
\* enabled, one send per such report, and none otherwise; a report at 95 or
\* more never causes a send.
AlertThreshold ==
    \A n \in Names :
        smtp_attempts[n] = IF EMAIL_ENABLED THEN below_reports[n] ELSE 0

\* a batch with alerts enabled that reconciled one folder at exactly 95 %
\* without a send and one below 95 % with one send
AlertThresholdWitness ==
    /\ EMAIL_ENABLED
    /\ \E j \in JobIds : \E a, b \in DOMAIN Results(j) :
         /\ Results(j)[a].report # None
         /\ Results(j)[a].report[1].summary.amount_reconciled_percentage
               = [num |-> 1900000, den |-> 20000]
         /\ smtp_attempts[Results(j)[a].transaction_name] = 0
         /\ Results(j)[b].report # None
         /\ smtp_attempts[Results(j)[b].transaction_name] = 1

\* C4: rounding independence.  For every report a batch returns, the alert
\* decision (email_sent, and with alerts enabled the send itself) agrees with
\* the decision computed from total_final_amount and total_visa_amount alone,
\* also where the displayed percentage rounds to 95.00.
RoundingIndependence ==
    \A j \in JobIds : \A i \in DOMAIN Results(j) :
        LET r == Results(j)[i] IN
        r.report # None =>
            /\ r.email_sent <=> TotalsBelow(r.report[1].summary)
            /\ EMAIL_ENABLED =>
                 ((smtp_attempts[r.transaction_name] = 1)
                     <=> TotalsBelow(r.report[1].summary))

\* a report at 94.995 %, displayed as 95.00, that alerted, next to one at
\* 94.9949 % that alerted too
RoundingIndependenceWitness ==
    /\ EMAIL_ENABLED
    /\ \E j \in JobIds : \E a, b \in DOMAIN Results(j) :
         /\ Results(j)[a].report # None
         /\ Results(j)[a].report[1].summary.total_final_amount = 18999
         /\ Results(j)[a].report[1].summary.amount_reconciled_display = 9500
         /\ Results(j)[a].email_sent
         /\ smtp_attempts[Results(j)[a].transaction_name] = 1
         /\ Results(j)[b].report # None
         /\ Results(j)[b].report[1].summary.total_final_amount = 949949
         /\ Results(j)[b].email_sent

\* C5: the job-status ledger is lock-protected: no thread reads or writes an
\* entry of batch_jobs, processing_state or a transaction's status fields
\* without holding processing_lock.
LedgerLockProtected == ~unlocked_access

\* C6: a worker either completes a transaction or fails it.  Every finished
\* call of process_single_transaction has returned a result for its index,
\* 'success' or 'failed'; when execute_batch_processing or
\* process_workspace_transactions returns, it has a result for every task it
\* submitted and every transaction it submitted is 'completed' or 'failed'.
WorkerCompletesOrFails ==
    /\ \A t \in DOMAIN pool :
         pool[t].pc \in {"done", "collected"} =>
            /\ pool[t].result.status \in {"success", "failed"}
            /\ pool[t].result.index = pool[t].idx
            /\ Txn(pool[t].pos).status # "pending"
    /\ (request.kind # "idle" /\ AllCollected) =>
         /\ Len(request.results) = Len(pool)
         /\ \A t \in DOMAIN pool :
              Txn(pool[t].pos).status \in {"completed", "failed"}
    /\ request.kind = "idle" =>
         /\ Processing = {}
         /\ \A k \in DOMAIN http.results :
              Txn(Position(http.results[k].index, Len(session.transactions))).status
                 \in {"completed", "failed"}

\* a handler has returned with a failed and a successful transaction
WorkerCompletesOrFailsWitness ==
    /\ request.kind = "idle"
    /\ \E a, b \in DOMAIN http.results :
         /\ http.results[a].status = "failed"
         /\ Txn(Position(http.results[a].index, Len(session.transactions))).status = "failed"
         /\ http.results[b].status = "success"
         /\ Txn(Position(http.results[b].index, Len(session.transactions))).status
               = "completed"

\* C7: bounded worker pool.  At most 2 transactions have status 'processing'
\* at the same time, whatever the number of submitted tasks.
BoundedWorkerPool == Cardinality(Processing) <= POOL_WORKERS

\* two transactions are 'processing' while a third submitted task waits
BoundedWorkerPoolWitness ==
    /\ Cardinality(Processing) = POOL_WORKERS
    /\ Len(pool) > POOL_WORKERS
    /\ \E t \in DOMAIN pool :
         /\ pool[t].pc = "queued"
         /\ Txn(pool[t].pos).status = "pending"

Rows == match_rows[1]

HasInvoiceLine(key) == \E k \in DOMAIN invoice_lines : KeyOf(invoice_lines[k]) = key

\* C8: classification totality.  match() gives one MatchResult per FeeLine,
\* each with one diff_status out of matched / higher / lower / missing, and
\* the status is 'missing' exactly when visa_amount is None, that is when no
\* invoice line has the FeeLine's (fee_type, rate_chart) key.
ClassificationTotality ==
    match_rows # None =>
        /\ Len(Rows) = Len(fee_lines)
        /\ \A i \in DOMAIN Rows :
             /\ Rows[i].diff_status \in STATUSES
             /\ (Rows[i].diff_status = "missing") <=> (Rows[i].visa_amount = None)
             /\ (Rows[i].visa_amount = None) <=> ~HasInvoiceLine(KeyOf(fee_lines[i]))

\* a sheet matched into a 'missing' row and a row whose invoice amount is 0
ClassificationTotalityWitness ==
    /\ match_rows # None
    /\ \E a, b \in DOMAIN Rows :
         /\ Rows[a].diff_status = "missing"
         /\ Rows[b].visa_amount = Some(0)
         /\ Rows[b].diff_status # "missing"

\* d > 1 and d < -1 for d = (final - visa) / visa * 100, visa nonzero
DiffOver(final, visa) ==
    IF visa > 0 THEN 100 * (final - visa) > visa ELSE 100 * (final - visa) < visa

DiffUnder(final, visa) ==
    IF visa > 0 THEN 100 * (final - visa) < 0 - visa ELSE 100 * (final - visa) > 0 - visa

\* C9: tolerance rule.  With visa_amount present and nonzero and
\* d = (final_amount - visa_amount) / visa_amount * 100, the status is
\* 'higher' iff d > 1.0, 'lower' iff d < -1.0 and 'matched' iff |d| <= 1.0:
\* 100.00 against 99.00 is 'higher', against 99.01 'matched', and d = 1.0 or
\* d = -1.0 is 'matched'.
ToleranceRule ==
    match_rows # None =>
        \A i \in DOMAIN Rows :
            (Rows[i].visa_amount # None /\ Rows[i].visa_amount # Some(0)) =>
                LET f == Rows[i].final_amount
                    v == Rows[i].visa_amount[1]
                    s == Rows[i].diff_status
                IN  /\ (s = "higher") <=> DiffOver(f, v)
                    /\ (s = "lower") <=> DiffUnder(f, v)
                    /\ (s = "matched") <=> (~DiffOver(f, v) /\ ~DiffUnder(f, v))
                    /\ (f = 10000 /\ v = 9900) => s = "higher"
                    /\ (f = 10000 /\ v = 9901) => s = "matched"
                    /\ (f = 101 /\ v = 100) => s = "matched"
                    /\ (f = 99 /\ v = 100) => s = "matched"

\* 100.00 against 99.00 came out 'higher' and a difference of exactly 1 %
\* came out 'matched'
ToleranceRuleWitness ==
    /\ match_rows # None
    /\ \E a, b \in DOMAIN Rows :
         /\ Rows[a].final_amount = 10000
         /\ Rows[a].visa_amount = Some(9900)
         /\ Rows[a].diff_status = "higher"
         /\ Rows[b].final_amount = 101
         /\ Rows[b].visa_amount = Some(100)
         /\ Rows[b].diff_status = "matched"

\* C10: zero denominators never fail.  match() gives a classified MatchResult
\* for every FeeLine also when visa_amount is 0: 0 against 0 is 'matched'
\* with percentage_diff 0; a positive final_amount against 0 is 'higher' and a
\* negative one 'lower', each with a sentinel percentage_diff.
ZeroDenominators ==
    match_rows # None =>
        /\ Len(Rows) = Len(fee_lines)
        /\ \A i \in DOMAIN Rows :
             Rows[i].visa_amount = Some(0) =>
                LET f == Rows[i].final_amount
                    d == Rows[i].percentage_diff
                IN  /\ d # None
                    /\ Rows[i].diff_status \in STATUSES \ {"missing"}
                    /\ f = 0 => /\ Rows[i].diff_status = "matched"
                                /\ d[1].kind = "finite"
                                /\ d[1].num = 0
                    /\ f > 0 => /\ Rows[i].diff_status = "higher"
                                /\ d[1].kind = "inf"
                    /\ f < 0 => /\ Rows[i].diff_status = "lower"
                                /\ d[1].kind = "-inf"

\* 0 against 0 came out 'matched' and a positive amount against 0 'higher'
ZeroDenominatorsWitness ==
    /\ match_rows # None
    /\ \E a, b \in DOMAIN Rows :
         /\ Rows[a].final_amount = 0
         /\ Rows[a].visa_amount = Some(0)
         /\ Rows[a].diff_status = "matched"
         /\ Rows[b].final_amount > 0
         /\ Rows[b].visa_amount = Some(0)
         /\ Rows[b].diff_status = "higher"

MatchSummary == match_summary[1]

\* C11: summary clamping.  For every set of MatchResults, also with
\* total_visa_amount = 0 or below, total_final_amount = 0 and totals far
\* apart, the Summary has 0 <= amount_reconciled_percentage <= 100.
SummaryClamping ==
    match_summary # None =>
        /\ MatchSummary.amount_reconciled_percentage.den > 0
        /\ MatchSummary.amount_reconciled_percentage.num >= 0
        /\ MatchSummary.amount_reconciled_percentage.num
              <= 100 * MatchSummary.amount_reconciled_percentage.den
        /\ MatchSummary.amount_reconciled_display >= 0
        /\ MatchSummary.amount_reconciled_display <= 10000

\* a Summary with invoice total 0 and a calculated total of 100.00 or more,
\* held at 0 %
SummaryClampingWitness ==
    /\ match_summary # None
    /\ MatchSummary.total_visa_amount = 0
    /\ MatchSummary.total_final_amount >= 10000
    /\ MatchSummary.amount_reconciled_percentage.num = 0

\* C12: missing versus unmatched-invoice asymmetry.  Every FeeLine has
\* exactly one MatchResult, under its own key, 'missing' when no invoice line
\* has the key; an invoice line whose key no FeeLine carries has no
\* MatchResult; total_calculated_items is the number of FeeLines and
\* total_visa_items the number of MatchResults with visa_amount present plus
\* the number of unmatched invoice lines.
CountAsymmetry ==
    match_summary # None =>
        /\ Len(Rows) = Len(fee_lines)
        /\ MatchSummary.total_calculated_items = Len(fee_lines)
        /\ \A i \in DOMAIN Rows :
             /\ <<Rows[i].fee_type, Rows[i].rate_chart>> = KeyOf(fee_lines[i])
             /\ ~HasInvoiceLine(KeyOf(fee_lines[i])) => Rows[i].diff_status = "missing"
        /\ MatchSummary.total_visa_items =
              Cardinality({i \in DOMAIN fee_lines : HasInvoiceLine(KeyOf(fee_lines[i]))})
              + Cardinality({k \in DOMAIN invoice_lines :
                               \A i \in DOMAIN fee_lines :
                                   KeyOf(fee_lines[i]) # KeyOf(invoice_lines[k])})

\* a FeeLine without invoice line next to an invoice line without FeeLine
CountAsymmetryWitness ==
    /\ match_summary # None
    /\ \E i \in DOMAIN Rows : Rows[i].diff_status = "missing"
    /\ \E i \in DOMAIN Rows : Rows[i].visa_amount # None
    /\ unmatched_invoice_lines # <<>>
    /\ MatchSummary.total_visa_items = 2
    /\ MatchSummary.total_calculated_items = 2

RowsOfKey(key) == {k \in DOMAIN sheet_rows : KeyOf(sheet_rows[k]) = key}

LastRowOfKey(key) == CHOOSE k \in RowsOfKey(key) : \A m \in RowsOfKey(key) : m <= k

\* C14: of the rows of one sheet that carry the same (fee_type, rate_chart)
\* key the extractor keeps the last one in sheet order, with that row's own
\* amount (never a sum); one line per key reaches the matcher, a key that no
\* row carries has no line, and every key carried twice is named in a warning
DuplicateKeyPolicy ==
    extraction # None =>
        \A key \in Keys :
            LET kept == {k \in DOMAIN extraction[1].lines :
                            KeyOf(extraction[1].lines[k]) = key}
            IN  IF RowsOfKey(key) = {} THEN kept = {}
                ELSE /\ Cardinality(kept) = 1
                     /\ \A k \in kept :
                          extraction[1].lines[k].final_amount
                              = sheet_rows[LastRowOfKey(key)].final_amount
                     /\ Cardinality(RowsOfKey(key)) > 1 =>
                          \E w \in DOMAIN extraction[1].warnings :
                              extraction[1].warnings[w] = key

DuplicateKeyPolicyWitness ==
    /\ extraction # None
    /\ \E key \in Keys :
          /\ Cardinality(RowsOfKey(key)) = 2
          /\ \E k \in RowsOfKey(key) :
                sheet_rows[k].final_amount
                    # sheet_rows[LastRowOfKey(key)].final_amount
    /\ Len(extraction[1].lines) = 2

\* the rows of a report, sheet after sheet, each sheet's rows in row order
RECURSIVE ReportRows(_)
ReportRows(sheets) ==
    IF sheets = <<>> THEN <<>>
    ELSE ReportRows(SubSeq(sheets, 1, Len(sheets) - 1)) \o sheets[Len(sheets)].rows

DiscrepantRows ==
    SelectSeq(ReportRows(rca_report.sheets),
              LAMBDA row : row.diff_status \in {"higher", "lower", "missing"})

\* C15: _extract_discrepancies returns one entry for each row whose
\* diff_status is higher, lower or missing, in sheet order and then row
\* order, each entry carrying its row's fee_type, diff_status and
\* final_amount_display; no entry stands for a matched row
ExtractionFaithful ==
    discrepancies # None =>
        /\ Len(discrepancies[1]) = Len(DiscrepantRows)
        /\ \A k \in DOMAIN discrepancies[1] :
              /\ discrepancies[1][k].diff_status = DiscrepantRows[k].diff_status
              /\ discrepancies[1][k].fee_type = DiscrepantRows[k].fee_type
              /\ discrepancies[1][k].calculated_value
                    = DiscrepantRows[k].final_amount_display
              /\ discrepancies[1][k].diff_status # "matched"

ExtractionFaithfulWitness ==
    /\ discrepancies # None
    /\ Len(rca_report.sheets) = 2
    /\ Len(ReportRows(rca_report.sheets)) = 4
    /\ Len(discrepancies[1]) = 3
    /\ discrepancies[1][1].diff_status = "missing"
    /\ discrepancies[1][3].diff_status = "higher"
    /\ rca_report.sheets[2].rows[1].diff_status = "matched"

\* C16: analyze_reconciliation_discrepancies returns None without calling
\* OpenAI when amount_reconciled_percentage is at least 95 or when the
\* summary or the field is absent (default 100), and it goes past the gate
\* exactly for the reports whose reconciled share is below 95
AnalysisGate ==
    rca.pc = "returned" =>
        /\ rca.passed_gate
              <=> (rca_report.kind = "full" /\ TotalsBelow(rca_report.summary))
        /\ ~rca.passed_gate => (rca.result = "None" /\ openai_calls = 0)
        /\ openai_calls > 0 => (rca.passed_gate /\ api_key)

AnalysisGateWitness ==
    /\ rca.pc = "returned"
    /\ rca.passed_gate
    /\ openai_calls = 1
    /\ rca.result = "analysis"
    /\ rca_report.summary.amount_reconciled_display = 9500

\* C17: a batch job starts as 'processing' and ends as 'completed' or
\* 'failed'; a job that a request finds 'failed' carries a non-null error
\* and null results
JobLifecycle ==
    \A j \in JobIds :
        batch_jobs[j] # None =>
            /\ Job(j).status \in {"processing", "completed", "failed"}
            /\ Job(j).status = "failed" =>
                  (Job(j).error # "None" /\ Job(j).results = None)

\* C18: whenever batch_progress or save_batch_results finds a job
\* 'completed', the job's results are the non-null result list and its
\* pdf_path is set: the answer of batch_progress carries non-null results
\* and save_batch_results never stores null batch_results in the session
CompletedIsPublished ==
    /\ \A j \in JobIds :
          (batch_jobs[j] # None /\ Job(j).status = "completed") =>
              (Job(j).results # None /\ Job(j).pdf_path # "None")
    /\ response.status = "completed" => response.results # None
    /\ batch_results.saved => batch_results.results # None

\* C19: the progress counter of a batch job never exceeds
\* total_transactions once the folders are counted, and once progress is
\* 'finalizing' processed equals total_transactions, the number of
\* transaction folders handled
ProgressCounter ==
    \A j \in JobIds :
        batch_jobs[j] # None =>
            /\ Job(j).progress \in {"initializing", "fetching", "reconciling", "finalizing"}
            /\ Job(j).processed <= Len(thread[j].folders)
            /\ Job(j).progress = "finalizing" =>
                  Job(j).processed = Job(j).total_transactions

\* process_transaction_batch has returned its results
Returned(j) == LoopLeft(j) /\ thread[j].idx = Len(thread[j].folders)

Subfolders == IF base_path_exists THEN {n \in Names : fs[n] # "absent"} ELSE {}

EmailSentTruthful ==
    /\ \A j \in JobIds : \A k \in DOMAIN Results(j) :
          Results(j)[k].email_sent
              <=> smtp_delivered[Results(j)[k].transaction_name] > 0
    /\ \A t \in DOMAIN pool :
          pool[t].result.email_sent = Some(TRUE) =>
              (EMAIL_ENABLED /\ smtp_delivered[pool[t].pos] > 0)

\* C22: execute_batch_processing submits only transactions that have a
\* summary file, each of them once, and a transaction without a summary
\* file stays 'pending' for good
SubmitsPendingOnce ==
    /\ request.kind = "execute" =>
          /\ \A t \in DOMAIN pool : Txn(pool[t].pos).has_summary
          /\ \A t, u \in DOMAIN pool : t # u => pool[t].pos # pool[u].pos
    /\ \A p \in DOMAIN session.transactions :
          ~Txn(p).has_summary => Txn(p).status = "pending"

\* C23: when execute_batch_processing has answered 'completed', the session
\* no longer carries auto_process_pending and transaction_browser shows the
\* workspace instead of redirecting to the processing page, also when no
\* transaction was pending with a summary file
AutoProcessCleared ==
    (http.handler = "execute_batch_processing" /\ http.status = "completed"
        /\ session.batch_session_id) =>
        /\ ~session.auto_process_pending
        /\ TransactionBrowser # "redirect_processing"

\* C24: process_workspace_transactions processes only indices within
\* 0..len(transactions)-1; any other requested index, negative ones
\* included, leads to no processing and the request does not fail
OnlyExistingIndices ==
    /\ request.kind = "workspace" =>
          \A t \in DOMAIN pool :
              pool[t].idx \in 0..(Len(session.transactions) - 1)
    /\ http.handler = "process_workspace_transactions" => http.status = "ok"

\* C25: between requests, whatever execute_batch_processing and
\* process_workspace_transactions calls came before, a 'failed' transaction
\* carries no report_file, a 'completed' one carries no error, and
\* workspace_result serves a report only for a 'completed' transaction
\* without error
RecordConsistency ==
    request.kind = "idle" =>
        \A p \in DOMAIN session.transactions :
            /\ Txn(p).status = "failed" => Txn(p).report_file = None
            /\ Txn(p).status = "completed" => Txn(p).error = "None"
            /\ WorkspaceResult(p - 1) = "report" =>
                  (Txn(p).status = "completed" /\ Txn(p).error = "None")

\* C26: batch jobs that run at overlapping times do not interfere: the
\* pdf_path of a completed job designates a PDF built from that job's own
\* results, which is also what download_batch_pdf serves for it, and a job's
\* results are those its own thread computed
JobsDoNotInterfere ==
    \A j \in OverlapJobIds :
        (pdf_jobs[j] # None /\ pdf_jobs[j][1].status = "completed") =>
            /\ pdf_jobs[j][1].results # None =>
                  pdf_jobs[j][1].results = Some(pdf_thread[j].results)
            /\ pdf_jobs[j][1].pdf_path # "None" =>
                  DownloadBatchPdf = pdf_jobs[j][1].results

====
